---- MODULE Spec2Model ----
(***************************************************************************)
(* Model of affiliate6.py: MediaManager.upload_media and the campaign      *)
(* build of FacebookCampaignManager.create_campaign, one step per remote   *)
(* call.  The remote platform is a store of created entities and a log of  *)
(* the calls it received.                                                  *)
(***************************************************************************)
EXTENDS Integers, Sequences, FiniteSets, TLC

VARIABLES product, params, pc, run, k, a, c, m, media_ids, campaign, adset,
          ad_creative, calls, entities, next_id, error

vars == <<product, params, pc, run, k, a, c, m, media_ids, campaign, adset,
          ad_creative, calls, entities, next_id, error>>

(* ------------------------------ bounds --------------------------------- *)

MaxImages == 2
MaxVideos == 1
MaxAdSets == 2
MaxCreatives == 2
MaxRuns == 2
MaxTags == 2

(* --------------------------- Python values ----------------------------- *)

\* An Optional[List]: None, or a list.
None == [null |-> TRUE, items |-> <<>>]
List(s) == [null |-> FALSE, items |-> s]
\* Python truthiness of an Optional[List]: None and [] are falsy.
Truthy(l) == ~l.null /\ Len(l.items) > 0
\* An Optional[str] that is None.
NoneStr == "None"

(* A float is a binary64: sig * 2^e, sig an integer of SigBits bits.  In
   the state sig is held as two integers, sig = hi * 2^27 + lo; the
   arithmetic is on its bits, lowest first. *)
SigBits == 53

RECURSIVE Num(_)
\* The number whose bits, lowest first, are b.
Num(b) == IF b = <<>> THEN 0 ELSE Head(b) + 2 * Num(Tail(b))
RECURSIVE BitsOf(_, _)
\* The w lowest bits of n, lowest first.
BitsOf(n, w) == IF w = 0 THEN <<>> ELSE <<n % 2>> \o BitsOf(n \div 2, w - 1)

Float(bits, exp) ==
    [hi |-> Num(SubSeq(bits, 28, Len(bits))), lo |-> Num(SubSeq(bits, 1, 27)),
     e |-> exp]
Sig(x) == BitsOf(x.lo, 27) \o BitsOf(x.hi, SigBits - 27)

HexDigit(d) == <<d % 2, (d \div 2) % 2, (d \div 4) % 2, d \div 8>>
RECURSIVE HexBits(_)
\* The bits, lowest first, of the number written as the hex digits h.
HexBits(h) ==
    IF h = <<>> THEN <<>>
    ELSE HexDigit(h[Len(h)]) \o HexBits(SubSeq(h, 1, Len(h) - 1))

\* The float Python prints, with float.hex(), as 0x1.<frac>p<exp>.
Double(frac, exp) == Float(HexBits(frac) \o <<1>>, exp - 52)

RECURSIVE AddBits(_, _, _)
AddBits(x, y, carry) ==
    IF x = <<>> /\ y = <<>> THEN (IF carry = 1 THEN <<1>> ELSE <<>>)
    ELSE LET xb == IF x = <<>> THEN 0 ELSE Head(x)
             yb == IF y = <<>> THEN 0 ELSE Head(y)
             xt == IF x = <<>> THEN <<>> ELSE Tail(x)
             yt == IF y = <<>> THEN <<>> ELSE Tail(y)
         IN  <<(xb + yb + carry) % 2>> \o AddBits(xt, yt, (xb + yb + carry) \div 2)

ShiftL(x, n) == [i \in 1..n |-> 0] \o x

\* sig * 100, exactly: 100 = 64 + 32 + 4.
Times100(sig) ==
    AddBits(AddBits(ShiftL(sig, 6), ShiftL(sig, 5), 0), ShiftL(sig, 2), 0)

AllZero(x) == \A i \in DOMAIN x : x[i] = 0

\* float * 100 (the int 100 converts to the float 100.0): the real product
\* rounded to SigBits bits, to nearest, ties to even.
Mul100(x) ==
    LET p == Times100(Sig(x))
        s == Len(p) - SigBits
        r == SubSeq(p, 1, s)
        q == SubSeq(p, s + 1, Len(p))
        up == /\ r[s] = 1
              /\ (~AllZero(SubSeq(r, 1, s - 1)) \/ q[1] = 1)
        q2 == IF up THEN AddBits(q, <<1>>, 0) ELSE q
    IN  IF Len(q2) > SigBits THEN Float(Tail(q2), x.e + s + 1)
        ELSE Float(q2, x.e + s)

\* Whether the float y is the real number 100 * x.
IsExactly100Times(y, x) ==
    y.e >= x.e /\ ShiftL(Sig(y), y.e - x.e) = Times100(Sig(x))

\* 10.0 (the default of FacebookCampaignParameters), the budgets of the
\* sample in __main__ (50.0, 20.0, 15.0), and 0.07 and 1.1.
Ten == Double(<<4,0,0,0,0,0,0,0,0,0,0,0,0>>, 3)
Fifty == Double(<<9,0,0,0,0,0,0,0,0,0,0,0,0>>, 5)
Twenty == Double(<<4,0,0,0,0,0,0,0,0,0,0,0,0>>, 4)
Fifteen == Double(<<14,0,0,0,0,0,0,0,0,0,0,0,0>>, 3)
SevenCents == Double(<<1,14,11,8,5,1,14,11,8,5,1,14,12>>, 0 - 4)
OnePointOne == Double(<<1,9,9,9,9,9,9,9,9,9,9,9,10>>, 0)
Budgets == {Ten, Fifty, Twenty, Fifteen, SevenCents, OnePointOne}

\* daily_budget * 100 for the budgets above, computed once.
Products == [x \in Budgets |-> Mul100(x)]
Times100Of(x) == Products[x]

(* ---------------------------- domain model ----------------------------- *)

\* HotmartProduct.__post_init__: the URL map derived from base_url.
BaseUrl == "https://go.hotmart.com/X"
Urls ==
    [sales |-> BaseUrl,
     product |-> "https://go.hotmart.com/X?dp=1",
     checkout |-> "https://go.hotmart.com/X?ap=838e",
     order_bump |-> "https://go.hotmart.com/X?ap=25f0"]
UrlKeys == {"sales", "product", "checkout", "order_bump"}
LiteralUrl == "https://example.test/landing"

\* AudienceTargeting: the fields _build_targeting_spec reads.
AudienceTargeting(ar, g, loc, i, b, ca, eca) ==
    [age_range |-> ar, genders |-> g, locations |-> loc, interests |-> i,
     behaviors |-> b, custom_audiences |-> ca,
     excluded_custom_audiences |-> eca]
DefaultTargeting ==
    AudienceTargeting(<<18, 65>>, None, None, None, None, None, None)

\* AdCreative: link_destination is NoneStr, a key of the URL map or a URL;
\* the dataclass declares no thumbnail_url, so an instance carries one only
\* when the caller attached it.
AdCreative(link, thumb) ==
    [headline |-> "Headline", link_destination |-> link,
     has_thumbnail_url |-> thumb]
\* The same creative under another headline.
Headed(h, creative) == [creative EXCEPT !.headline = h]

AdSetParameters(budget, t) == [daily_budget |-> budget, targeting |-> t]

FacebookCampaignParameters(st, budget, sets, creatives) ==
    [status |-> st, daily_budget |-> budget, ad_sets |-> sets,
     ad_creatives |-> creatives]

HotmartProduct(imgs, vids) == [images |-> imgs, videos |-> vids, urls |-> Urls]

(* --------------------------- pure functions ---------------------------- *)

EmptyDict == [x \in {} |-> 0]

\* [{'id': v} for v in l]
WrapIds(l) == [i \in 1..Len(l) |-> [id |-> l[i]]]

OptKeyWrong(key, l) ==
    IF ~l.null THEN key :> WrapIds(l.items) ELSE EmptyDict
\* if l: spec[key] = [{'id': v} for v in l]
OptKey(key, l) ==
    IF Truthy(l) THEN key :> WrapIds(l.items) ELSE EmptyDict

_build_targeting_spec(targeting) ==
    [age_min |-> targeting.age_range[1],
     age_max |-> targeting.age_range[2],
     genders |-> targeting.genders,
     geo_locations |-> [countries |-> targeting.locations]]
    @@ OptKey("interests", targeting.interests)
    @@ OptKey("behaviors", targeting.behaviors)
    @@ OptKey("custom_audiences", targeting.custom_audiences)
    @@ OptKey("excluded_custom_audiences", targeting.excluded_custom_audiences)

\* creative.link_destination or product.urls['sales']
LinkOf(creative, prod) ==
    IF creative.link_destination # NoneStr /\ creative.link_destination # ""
    THEN creative.link_destination
    ELSE prod.urls.sales

\* The hash the platform returns for an image: a function of its content.
ImageHash(url) == 0 - url

(* ----------------------------- the build ------------------------------- *)

Images == product.images
\* product.videos if product.videos else []
Videos == IF Truthy(product.videos) THEN product.videos.items ELSE <<>>

NImg == Len(media_ids.images)
NVid == Len(media_ids.videos)

\* A remote call as the platform sees it.
Call(kind, ok, id, request) ==
    [kind |-> kind, run |-> run, ok |-> ok, id |-> id, request |-> request]
Entity(kind, id, parent, status) ==
    [kind |-> kind, id |-> id, parent |-> parent, status |-> status,
     run |-> run]

Inputs == <<product, params>>

\* An exception leaves create_campaign: nothing catches it.
Raise(err) ==
    /\ pc' = "raised"
    /\ error' = err

\* create_campaign is called.
Invoke ==
    /\ pc = "idle"
    /\ run' = run + 1
    /\ pc' = IF Len(Images) > 0 THEN "upload_images"
             ELSE IF Len(Videos) > 0 THEN "upload_videos"
             ELSE "campaign"
    /\ k' = 1
    /\ media_ids' = [images |-> <<>>, videos |-> <<>>]
    /\ UNCHANGED <<a, c, m, campaign, adset, ad_creative, calls, entities,
                   next_id, error, Inputs>>

\* One pass of the image loop of upload_media: _upload_image returns the
\* hash, or None when the fetch or the upload raised.
AppendIdWrong(ids, ok, id) == Append(ids, id)
AppendId(ids, ok, id) == IF ok THEN Append(ids, id) ELSE ids

UploadImage ==
    /\ pc = "upload_images"
    /\ \E ok \in BOOLEAN :
         LET id == IF ok THEN ImageHash(Images[k]) ELSE 0 IN
         /\ calls' = Append(calls, Call("image", ok, id, [url |-> Images[k]]))
         /\ media_ids' =
              [media_ids EXCEPT !.images = AppendId(@, ok, id)]
    /\ IF k < Len(Images) THEN k' = k + 1 /\ pc' = pc
       ELSE /\ k' = 1
            /\ pc' = IF Len(Videos) > 0 THEN "upload_videos" ELSE "campaign"
    /\ UNCHANGED <<run, a, c, m, campaign, adset, ad_creative, entities,
                   next_id, error, Inputs>>

\* One pass of the video loop of upload_media.
UploadVideo ==
    /\ pc = "upload_videos"
    /\ \E ok \in BOOLEAN :
         LET id == IF ok THEN next_id ELSE 0 IN
         /\ calls' = Append(calls, Call("video", ok, id, [url |-> Videos[k]]))
         /\ media_ids' =
              [media_ids EXCEPT !.videos = AppendId(@, ok, id)]
         /\ next_id' = IF ok THEN next_id + 1 ELSE next_id
    /\ IF k < Len(Videos) THEN k' = k + 1 /\ pc' = pc
       ELSE k' = 1 /\ pc' = "campaign"
    /\ UNCHANGED <<run, a, c, m, campaign, adset, ad_creative, entities,
                   error, Inputs>>

\* The request bodies of the four create calls.
CampaignRequestWrong ==
    [status |-> "PAUSED", daily_budget |-> Times100Of(params.daily_budget)]
CampaignRequest ==
    [status |-> params.status, daily_budget |-> Times100Of(params.daily_budget)]

AdsetRequestWrong(ad_set_params) ==
    [campaign_id |-> campaign,
     daily_budget |-> Times100Of(ad_set_params.daily_budget),
     targeting |-> _build_targeting_spec(ad_set_params.targeting),
     status |-> params.status]
AdsetRequest(ad_set_params) ==
    [campaign_id |-> campaign,
     daily_budget |-> Times100Of(ad_set_params.daily_budget),
     targeting |-> _build_targeting_spec(ad_set_params.targeting),
     status |-> "PAUSED"]

ImageCreativeRequest(creative, image_hash) ==
    [data |-> "link_data", link |-> LinkOf(creative, product),
     headline |-> creative.headline, image_hash |-> image_hash]

VideoCreativeRequest(creative, video_id) ==
    [data |-> "video_data", video_id |-> video_id,
     title |-> creative.headline]

AdRequest ==
    [adset_id |-> adset, creative_id |-> ad_creative, status |-> "PAUSED"]

AdSets == params.ad_sets.items
Creatives == params.ad_creatives.items

\* Where the loops of create_campaign and _create_ads go next.  m runs over
\* the uploaded images, then over the uploaded videos.
Pos(p, aa, cc, mm) == [pc |-> p, a |-> aa, c |-> cc, m |-> mm]
PcOfMedia(mm) == IF mm <= NImg THEN "image_creative" ELSE "video_creative"
NextAdSet(aa) ==
    IF aa < Len(AdSets) THEN Pos("adset", aa + 1, 1, 1)
    ELSE Pos("done", aa, 1, 1)
FirstAdWrong(aa) ==
    IF Len(Creatives) > 0 /\ NImg + NVid > 0 THEN Pos(PcOfMedia(1), aa, 1, 1)
    ELSE Pos("done", aa, 1, 1)
FirstAd(aa) ==
    IF Len(Creatives) > 0 /\ NImg + NVid > 0 THEN Pos(PcOfMedia(1), aa, 1, 1)
    ELSE NextAdSet(aa)
NextAdWrong(aa, cc, mm) ==
    IF cc < Len(Creatives) THEN Pos(PcOfMedia(mm), aa, cc + 1, mm)
    ELSE IF mm < NImg + NVid THEN Pos(PcOfMedia(mm + 1), aa, 1, mm + 1)
    ELSE NextAdSet(aa)
NextAd(aa, cc, mm) ==
    IF mm < NImg + NVid THEN Pos(PcOfMedia(mm + 1), aa, cc, mm + 1)
    ELSE IF cc < Len(Creatives) THEN Pos(PcOfMedia(1), aa, cc + 1, 1)
    ELSE NextAdSet(aa)
Goto(pos) ==
    /\ pc' = pos.pc
    /\ a' = pos.a
    /\ c' = pos.c
    /\ m' = pos.m

\* A create call the platform accepts: it stores the entity under a fresh
\* identifier.
Created(kind, parent, request) ==
    /\ calls' = Append(calls, Call(kind, TRUE, next_id, request))
    /\ entities' = entities \cup
         {Entity(kind, next_id, parent,
                 IF "status" \in DOMAIN request THEN request.status
                 ELSE NoneStr)}
    /\ next_id' = next_id + 1

\* A create call the platform rejects: the SDK raises.
RejectedWrong(kind, request) ==
    /\ calls' = Append(calls, Call(kind, FALSE, 0, request))
    /\ entities' = {e \in entities : e.run # run}
    /\ next_id' = next_id
    /\ Raise("remote")
    /\ UNCHANGED <<a, c, m>>
Rejected(kind, request) ==
    /\ calls' = Append(calls, Call(kind, FALSE, 0, request))
    /\ UNCHANGED <<entities, next_id>>
    /\ Raise("remote")
    /\ UNCHANGED <<a, c, m>>

\* _create_base_campaign, then the head of the loop over ad_sets.
CreateBaseCampaign ==
    /\ pc = "campaign"
    /\ \/ /\ Created("campaign", 0, CampaignRequest)
          /\ campaign' = next_id
          /\ IF params.ad_sets.null
             THEN Raise("TypeError") /\ UNCHANGED <<a, c, m>>
             ELSE /\ Goto(IF Len(AdSets) > 0 THEN Pos("adset", 1, 1, 1)
                          ELSE Pos("done", 1, 1, 1))
                  /\ UNCHANGED error
       \/ /\ Rejected("campaign", CampaignRequest)
          /\ UNCHANGED campaign
    /\ UNCHANGED <<run, k, media_ids, adset, ad_creative, Inputs>>

\* _create_adset for ad_sets[a], then the head of the loops of _create_ads.
CreateAdset ==
    /\ pc = "adset"
    /\ \/ /\ Created("adset", campaign, AdsetRequest(AdSets[a]))
          /\ adset' = next_id
          /\ IF params.ad_creatives.null
             THEN Raise("TypeError") /\ UNCHANGED <<a, c, m>>
             ELSE Goto(FirstAd(a)) /\ UNCHANGED error
       \/ /\ Rejected("adset", AdsetRequest(AdSets[a]))
          /\ UNCHANGED adset
    /\ UNCHANGED <<run, k, media_ids, campaign, ad_creative, Inputs>>

\* _create_image_ad: the create_ad_creative call.
CreateImageCreative ==
    /\ pc = "image_creative"
    /\ LET req == ImageCreativeRequest(Creatives[c], media_ids.images[m]) IN
       \/ /\ Created("creative", 0, req)
          /\ ad_creative' = next_id
          /\ pc' = "image_ad"
          /\ UNCHANGED <<a, c, m, error>>
       \/ /\ Rejected("creative", req)
          /\ UNCHANGED ad_creative
    /\ UNCHANGED <<run, k, media_ids, campaign, adset, Inputs>>

\* _create_image_ad: the Ad create call.
CreateImageAd ==
    /\ pc = "image_ad"
    /\ \/ /\ Created("ad", adset, AdRequest)
          /\ Goto(NextAd(a, c, m))
          /\ UNCHANGED error
       \/ Rejected("ad", AdRequest)
    /\ UNCHANGED <<run, k, media_ids, campaign, adset, ad_creative, Inputs>>

\* _create_video_ad: reading creative.thumbnail_url raises AttributeError
\* when the creative has none; otherwise the create_ad_creative call.
CreateVideoCreative ==
    /\ pc = "video_creative"
    /\ IF ~Creatives[c].has_thumbnail_url
       THEN /\ Raise("AttributeError")
            /\ UNCHANGED <<a, c, m, calls, entities, next_id, ad_creative>>
       ELSE LET req == VideoCreativeRequest(Creatives[c],
                                            media_ids.videos[m - NImg]) IN
            \/ /\ Created("creative", 0, req)
               /\ ad_creative' = next_id
               /\ pc' = "video_ad"
               /\ UNCHANGED <<a, c, m, error>>
            \/ /\ Rejected("creative", req)
               /\ UNCHANGED ad_creative
    /\ UNCHANGED <<run, k, media_ids, campaign, adset, Inputs>>

\* _create_video_ad: the Ad create call.
CreateVideoAd ==
    /\ pc = "video_ad"
    /\ \/ /\ Created("ad", adset, AdRequest)
          /\ Goto(NextAd(a, c, m))
          /\ UNCHANGED error
       \/ Rejected("ad", AdRequest)
    /\ UNCHANGED <<run, k, media_ids, campaign, adset, ad_creative, Inputs>>

InvokeAgainWrong ==
    /\ pc \in {"done", "raised"}
    /\ run < MaxRuns
    /\ run' = run + 1
    /\ pc' = "campaign"
    /\ k' = 1
    /\ a' = 1
    /\ c' = 1
    /\ m' = 1
    /\ campaign' = 0
    /\ adset' = 0
    /\ ad_creative' = 0
    /\ error' = NoneStr
    /\ UNCHANGED <<media_ids, calls, entities, next_id, Inputs>>
\* The caller calls create_campaign again with the same product and
\* parameters.
InvokeAgain ==
    /\ pc \in {"done", "raised"}
    /\ run < MaxRuns
    /\ run' = run + 1
    /\ pc' = IF Len(Images) > 0 THEN "upload_images"
             ELSE IF Len(Videos) > 0 THEN "upload_videos"
             ELSE "campaign"
    /\ k' = 1
    /\ a' = 1
    /\ c' = 1
    /\ m' = 1
    /\ media_ids' = [images |-> <<>>, videos |-> <<>>]
    /\ campaign' = 0
    /\ adset' = 0
    /\ ad_creative' = 0
    /\ error' = NoneStr
    /\ UNCHANGED <<calls, entities, next_id, Inputs>>

Next ==
    \/ Invoke
    \/ UploadImage
    \/ UploadVideo
    \/ CreateBaseCampaign
    \/ CreateAdset
    \/ CreateImageCreative
    \/ CreateImageAd
    \/ CreateVideoCreative
    \/ CreateVideoAd

NextTwice == Next \/ InvokeAgain

(* ------------------------------ inputs --------------------------------- *)

RECURSIVE SeqsUpTo(_, _)
\* The sequences over S of length at most n.
SeqsUpTo(S, n) ==
    IF n = 0 THEN {<<>>}
    ELSE LET shorter == SeqsUpTo(S, n - 1) IN
         shorter \cup {Append(s, x) : s \in shorter, x \in S}

\* <<1>>, <<1, 2>>, ...: n distinct source URLs.
Urls1To(n) == [i \in 1..n |-> i]
OptLists(S, n) == {None} \cup {List(s) : s \in SeqsUpTo(S, n)}

InitLocals ==
    /\ pc = "idle"
    /\ run = 0
    /\ k = 1
    /\ a = 1
    /\ c = 1
    /\ m = 1
    /\ media_ids = [images |-> <<>>, videos |-> <<>>]
    /\ campaign = 0
    /\ adset = 0
    /\ ad_creative = 0
    /\ calls = <<>>
    /\ entities = {}
    /\ next_id = 1
    /\ error = NoneStr

ImageLists == {Urls1To(n) : n \in 0..MaxImages}
VideoLists == {None} \cup {List(Urls1To(n)) : n \in 0..MaxVideos}
FlowCreatives == {AdCreative(NoneStr, t) : t \in BOOLEAN}
FlowAdSets == {AdSetParameters(Twenty, DefaultTargeting)}

\* Builds of every shape: the lists vary, their entries' contents do not.
Init ==
    /\ product \in {HotmartProduct(i, v) : i \in ImageLists, v \in VideoLists}
    /\ params \in {FacebookCampaignParameters(st, Ten, s, cr) :
                     st \in {"PAUSED", "ACTIVE"},
                     s \in OptLists(FlowAdSets, MaxAdSets),
                     cr \in OptLists(FlowCreatives, MaxCreatives)}
    /\ InitLocals

Spec == Init /\ [][Next]_vars

\* Builds of one shape whose data vary: the budgets, the creatives' link
\* targets, or the targeting of the ad set.
LinkTargets == {NoneStr} \cup UrlKeys \cup {LiteralUrl}
\* None, [], or n entries of the field, n <= MaxTags.
TagLists(field) ==
    {None} \cup {List([i \in 1..n |-> <<field, n + 1 - i>>]) : n \in 0..MaxTags}
AgeRanges == {<<18, 65>>, <<25, 55>>, <<21, 21>>}
Targetings ==
    {AudienceTargeting(ar, List(<<1, 2>>), List(<<"US", "CA">>), i, b, ca, eca) :
       ar \in AgeRanges, i \in TagLists("interest"), b \in TagLists("behavior"),
       ca \in TagLists("audience"), eca \in TagLists("excluded")}
DataProduct == HotmartProduct(Urls1To(1), List(Urls1To(1)))
BareProduct == HotmartProduct(<<>>, None)
DataCreatives == List(<<AdCreative(NoneStr, TRUE)>>)
DataAdSets == List(<<AdSetParameters(Twenty, DefaultTargeting)>>)

InitData ==
    /\ \/ /\ product = DataProduct
          /\ params \in
               {FacebookCampaignParameters("PAUSED", b, List(s), DataCreatives) :
                  b \in Budgets,
                  s \in SeqsUpTo({AdSetParameters(x, DefaultTargeting) :
                                    x \in Budgets}, MaxAdSets)}
       \/ /\ product = DataProduct
          /\ params \in
               {FacebookCampaignParameters("PAUSED", Ten, DataAdSets, List(cr)) :
                  cr \in SeqsUpTo({AdCreative(l, t) : l \in LinkTargets,
                                                      t \in BOOLEAN},
                                  MaxCreatives)}
       \/ /\ product = BareProduct
          /\ params \in
               {FacebookCampaignParameters("PAUSED", Ten,
                                           List(<<AdSetParameters(Twenty, t)>>),
                                           DataCreatives) : t \in Targetings}
    /\ InitLocals

SpecData == InitData /\ [][Next]_vars

\* Small builds that the caller repeats with the same inputs.
InitTwice ==
    /\ product \in {HotmartProduct(Urls1To(1), None),
                    HotmartProduct(<<>>, List(Urls1To(1))),
                    DataProduct}
    /\ params \in {FacebookCampaignParameters("PAUSED", Ten, List(s), List(<<cr>>)) :
                     s \in SeqsUpTo(FlowAdSets, 2) \ {<<>>},
                     cr \in FlowCreatives}
    /\ InitLocals

SpecTwice == InitTwice /\ [][NextTwice]_vars

\* Builds whose ad sets and creatives are pairwise distinct, listed in
\* either order, so that the order of the calls shows in their requests.
Headlines == <<"A", "B", "C", "D">>
OrderBudgets == <<Twenty, Fifteen, Fifty, Ten>>
Reverse(s) == [i \in 1..Len(s) |-> s[Len(s) + 1 - i]]
BothOrders(s) == {s, Reverse(s)}
OrderAdSets ==
    UNION {BothOrders([i \in 1..n |->
                         AdSetParameters(OrderBudgets[i], DefaultTargeting)]) :
             n \in 0..MaxAdSets}
OrderCreatives ==
    UNION {BothOrders([i \in 1..n |->
                         Headed(Headlines[i], AdCreative(NoneStr, TRUE))]) :
             n \in 0..MaxCreatives}

InitOrder ==
    /\ product \in {HotmartProduct(Urls1To(i), List(Urls1To(v))) :
                      i \in 1..MaxImages, v \in 0..MaxVideos}
    /\ params \in {FacebookCampaignParameters("PAUSED", Ten, List(s), List(cr)) :
                     s \in OrderAdSets, cr \in OrderCreatives}
    /\ InitLocals

SpecOrder == InitOrder /\ [][Next]_vars

(* ------------------------------ claims --------------------------------- *)

CreateKinds == {"campaign", "adset", "creative", "ad"}
Ended == pc \in {"done", "raised"}
\* The calls of the current build, in order, and those of one kind.
ThisRun == SelectSeq(calls, LAMBDA x : x.run = run)
OfKind(kind) == SelectSeq(ThisRun, LAMBDA x : x.kind = kind)
Count(kind) == Len(OfKind(kind))
ListInputs == ~params.ad_sets.null /\ ~params.ad_creatives.null

\* C1: a build in which every remote call succeeds issues 1 campaign-create
\* call, A ad-set-create calls and, per ad set, C x (I + V) creative-create
\* and C x (I + V) ad-create calls.
C1_CallCounts ==
    (Ended /\ error # "remote" /\ ListInputs) =>
        /\ Count("campaign") = 1
        /\ Count("adset") = Len(AdSets)
        /\ Count("creative") = Len(AdSets) * Len(Creatives) * (NImg + NVid)
        /\ Count("ad") = Len(AdSets) * Len(Creatives) * (NImg + NVid)

UrlsOf(attempts) == [i \in 1..Len(attempts) |-> attempts[i].request.url]
IdsOfOk(attempts) ==
    LET oks == SelectSeq(attempts, LAMBDA x : x.ok) IN
    [i \in 1..Len(oks) |-> oks[i].id]
\* C2: upload_media never raises, attempts every URL, and returns exactly
\* the identifiers of the uploads that succeeded, in input order.
C2_UploadResult ==
    /\ pc \in {"upload_images", "upload_videos", "campaign"} => error = NoneStr
    /\ pc \notin {"idle", "upload_images", "upload_videos"} =>
         /\ UrlsOf(OfKind("image")) = Images
         /\ UrlsOf(OfKind("video")) = Videos
         /\ media_ids.images = IdsOfOk(OfKind("image"))
         /\ media_ids.videos = IdsOfOk(OfKind("video"))
         /\ \A i \in DOMAIN ThisRun :
              ThisRun[i].kind \in {"image", "video"} =>
                \A j \in 1..(i - 1) : ThisRun[j].kind \in {"image", "video"}
C2_Witness ==
    /\ pc = "campaign"
    /\ Len(Images) = 2
    /\ NImg = 1
    /\ \E i \in DOMAIN calls : calls[i].kind = "image" /\ ~calls[i].ok

\* C3: a failed create call reaches the caller; it is the last call of the
\* build (nothing follows it, it is not retried), and every entity created
\* before it is still on the platform as it was created.
C3_FailurePropagates ==
    /\ \A i \in DOMAIN ThisRun :
         (ThisRun[i].kind \in CreateKinds /\ ~ThisRun[i].ok) =>
            /\ i = Len(ThisRun)
            /\ pc = "raised"
            /\ error = "remote"
    /\ \A i \in DOMAIN calls :
         (calls[i].kind \in CreateKinds /\ calls[i].ok) =>
            \E e \in entities :
               /\ e.id = calls[i].id
               /\ e.kind = calls[i].kind
               /\ e.run = calls[i].run
               /\ "status" \in DOMAIN calls[i].request =>
                    e.status = calls[i].request.status
C3_Witness ==
    /\ pc = "raised"
    /\ error = "remote"
    /\ \E e \in entities : e.kind = "ad"
    /\ ~ThisRun[Len(ThisRun)].ok

StatusKinds == {"campaign", "adset", "ad"}
\* C4 as claimed: whatever a failed build left on the platform, the
\* campaign included, was created with status PAUSED.
C4_AllPaused ==
    pc = "raised" =>
        \A e \in entities : e.kind \in StatusKinds => e.status = "PAUSED"
\* C4 as amended: every ad set and ad a failed build left was created with
\* status PAUSED, and the campaign with the status of the campaign parameters.
C4_PausedBelowCampaign ==
    pc = "raised" =>
        \A e \in entities :
           /\ e.kind \in {"adset", "ad"} => e.status = "PAUSED"
           /\ e.kind = "campaign" => e.status = params.status
C4_Witness ==
    /\ pc = "raised"
    /\ params.status = "ACTIVE"
    /\ \E e \in entities : e.kind = "campaign" /\ e.status = "ACTIVE"
    /\ \E e \in entities : e.kind = "ad" /\ e.status = "PAUSED"

\* C5: every ad-set-create call and every ad-create call carries status
\* PAUSED, whatever the status of the campaign parameters.
C5_CreatedPaused ==
    \A i \in DOMAIN calls :
       calls[i].kind \in {"adset", "ad"} => calls[i].request.status = "PAUSED"
C5_Witness ==
    /\ pc = "done"
    /\ params.status = "ACTIVE"
    /\ NImg > 0
    /\ NVid > 0
    /\ Count("adset") > 0
    /\ Count("ad") = Len(AdSets) * Len(Creatives) * (NImg + NVid)
    /\ Count("ad") > 1

UploadDone == pc \notin {"idle", "upload_images", "upload_videos"}
OnlyRemoteStops == pc = "raised" => error = "remote"
NoAds == Count("creative") = 0 /\ Count("ad") = 0
\* C6: with no uploaded media, with ad_sets = [] or with ad_creatives = []
\* the build raises nothing of its own and, run to its end, has created the
\* campaign, the ad sets the case allows, and no creative and no ad.
C6_Degenerate ==
    /\ (UploadDone /\ NImg + NVid = 0 /\ ListInputs) =>
         /\ OnlyRemoteStops
         /\ pc = "done" =>
              Count("campaign") = 1 /\ Count("adset") = Len(AdSets) /\ NoAds
    /\ (UploadDone /\ params.ad_sets = List(<<>>)) =>
         /\ OnlyRemoteStops
         /\ pc = "done" =>
              Count("campaign") = 1 /\ Count("adset") = 0 /\ NoAds
    /\ (UploadDone /\ params.ad_creatives = List(<<>>) /\ ~params.ad_sets.null) =>
         /\ OnlyRemoteStops
         /\ pc = "done" =>
              Count("campaign") = 1 /\ Count("adset") = Len(AdSets) /\ NoAds
C6_Witness ==
    /\ pc = "done"
    /\ Len(Images) + Len(Videos) > 1
    /\ NImg + NVid = 0
    /\ Len(Creatives) > 0
    /\ Count("adset") = 2

ResolvedLink(creative) ==
    IF creative.link_destination \in UrlKeys
    THEN product.urls[creative.link_destination]
    ELSE IF creative.link_destination = NoneStr THEN product.urls.sales
    ELSE creative.link_destination
\* C7: the link of an image creative-create call is the URL the creative's
\* link target resolves to: the URL map's entry for a key, the target itself
\* for a literal URL, the sales URL for no target.
C7_LinkResolved ==
    pc = "image_ad" =>
        calls[Len(calls)].request.link = ResolvedLink(Creatives[c])

ListKeys ==
    {"interests", "behaviors", "custom_audiences", "excluded_custom_audiences"}
TargetingAsClaimed(t, spec) ==
    /\ spec.age_min = t.age_range[1]
    /\ spec.age_max = t.age_range[2]
    /\ \A key \in ListKeys :
         /\ key \in DOMAIN spec <=> (~t[key].null /\ t[key].items # <<>>)
         /\ key \in DOMAIN spec =>
              /\ Len(spec[key]) = Len(t[key].items)
              /\ \A i \in 1..Len(spec[key]) :
                   spec[key][i] = [id |-> t[key].items[i]]
\* C8: the targeting of each ad-set-create call has age_min and age_max from
\* the age range, and each of the four list keys exactly when the input list
\* is non-empty, holding the entries wrapped as {id: entry} in input order.
C8_TargetingSpec ==
    \A j \in 1..Count("adset") :
       TargetingAsClaimed(AdSets[j].targeting, OfKind("adset")[j].request.targeting)
C8_Witness ==
    /\ Count("adset") = 1
    /\ LET t == AdSets[1].targeting
           spec == OfKind("adset")[1].request.targeting
       IN  /\ Len(t.interests.items) = 2
           /\ t.behaviors = List(<<>>)
           /\ t.custom_audiences = None
           /\ "interests" \in DOMAIN spec
           /\ "behaviors" \notin DOMAIN spec

\* C9: the daily budget of the campaign-create call is exactly 100 times the
\* campaign parameters' daily_budget, and that of each ad-set-create call
\* exactly 100 times its ad-set spec's daily_budget.
C9_BudgetTimes100 ==
    /\ \A j \in 1..Count("campaign") :
         IsExactly100Times(OfKind("campaign")[j].request.daily_budget,
                           params.daily_budget)
    /\ \A j \in 1..Count("adset") :
         IsExactly100Times(OfKind("adset")[j].request.daily_budget,
                           AdSets[j].daily_budget)

CallsOfRun(r, kind) == SelectSeq(calls, LAMBDA x : x.run = r /\ x.kind = kind)
IdsOfRun(r, kind) == {x.id : x \in {calls[i] : i \in {j \in DOMAIN calls :
                        calls[j].run = r /\ calls[j].kind = kind /\ calls[j].ok}}}
OwnReferences(x) ==
    /\ x.kind = "adset" => x.request.campaign_id \in IdsOfRun(x.run, "campaign")
    /\ x.kind = "ad" =>
         /\ x.request.adset_id \in IdsOfRun(x.run, "adset")
         /\ x.request.creative_id \in IdsOfRun(x.run, "creative")
    /\ (x.kind = "creative" /\ x.request.data = "video_data") =>
         x.request.video_id \in IdsOfRun(x.run, "video")
    /\ (x.kind = "creative" /\ x.request.data = "link_data") =>
         x.request.image_hash \in IdsOfRun(x.run, "image")
\* C10: a second call with the same inputs uploads the media again, issues
\* its own campaign-create call, and refers in its requests only to what it
\* created itself: the platform holds two campaigns of distinct identifiers.
C10_BuildsTwice ==
    /\ \A r \in 1..run :
         (r < run \/ UploadDone) =>
            /\ UrlsOf(CallsOfRun(r, "image")) = Images
            /\ UrlsOf(CallsOfRun(r, "video")) = Videos
    /\ \A r \in 1..run :
         (r < run \/ pc \notin {"idle", "upload_images", "upload_videos",
                                "campaign"}) =>
            Len(CallsOfRun(r, "campaign")) = 1
    /\ \A i \in DOMAIN calls : OwnReferences(calls[i])
    /\ \A i, j \in DOMAIN calls :
         (i # j /\ calls[i].ok /\ calls[j].ok
            /\ calls[i].kind \in CreateKinds /\ calls[j].kind \in CreateKinds) =>
               calls[i].id # calls[j].id
    /\ \A e \in entities : e.kind = "adset" =>
         \E p \in entities : p.kind = "campaign" /\ p.id = e.parent /\ p.run = e.run
C10_Witness ==
    /\ run = 2
    /\ pc = "done"
    /\ Cardinality({e \in entities : e.kind = "campaign"}) = 2
    /\ \E e \in entities : e.kind = "ad" /\ e.run = 1
    /\ \E e \in entities : e.kind = "ad" /\ e.run = 2

\* The position in the log l of the ad-set-create call that opens the block
\* of call i, or 0.
BlockStart(l, i) ==
    LET before == {j \in 1..(i - 1) : l[j].kind = "adset"} IN
    IF before = {} THEN 0
    ELSE CHOOSE j \in before : \A j2 \in before : j2 <= j
\* The rank of call i among the creative-create calls of its block.
RankInBlock(l, i) ==
    Cardinality({j \in (BlockStart(l, i) + 1)..i : l[j].kind = "creative"})
\* The request of the creative-create call of that rank, when the creatives
\* are taken in the order of params.ad_creatives and, for each, the
\* uploaded images and then the uploaded videos.
CreativeRequestAt(rank) ==
    LET n == NImg + NVid
        cc == ((rank - 1) \div n) + 1
        mm == ((rank - 1) % n) + 1
    IN  IF mm <= NImg
        THEN ImageCreativeRequest(Creatives[cc], media_ids.images[mm])
        ELSE VideoCreativeRequest(Creatives[cc], media_ids.videos[mm - NImg])
\* C11: the remote calls of a build occur in a fixed order: the uploads
\* before the campaign-create call, that call before every ad-set-create
\* call, the ad-set-create calls in the order of params.ad_sets, each ad
\* set's call before the creative-create and ad-create calls made for it,
\* the ads of one ad set in the order of params.ad_creatives, and each
\* ad-create call directly after the creative-create call it references.
C11_CallOrder ==
    LET l == ThisRun IN
    \A i \in DOMAIN l :
      LET x == l[i]
          start == BlockStart(l, i)
      IN
      /\ x.kind \in {"image", "video"} =>
            \A j \in 1..(i - 1) : l[j].kind \notin CreateKinds
      /\ x.kind = "adset" =>
            /\ \E j \in 1..(i - 1) :
                  /\ l[j].kind = "campaign"
                  /\ l[j].ok
                  /\ l[j].id = x.request.campaign_id
            /\ LET q == Cardinality({j \in 1..i : l[j].kind = "adset"}) IN
               /\ q <= Len(AdSets)
               /\ x.request = AdsetRequest(AdSets[q])
      /\ x.kind \in {"creative", "ad"} =>
            /\ start > 0
            /\ l[start].ok
      /\ x.kind = "creative" =>
            LET rank == RankInBlock(l, i) IN
            /\ NImg + NVid > 0
            /\ rank <= Len(Creatives) * (NImg + NVid)
            /\ x.request = CreativeRequestAt(rank)
      /\ x.kind = "ad" =>
            /\ x.request.adset_id = l[start].id
            /\ i > 1
            /\ l[i - 1].kind = "creative"
            /\ l[i - 1].ok
            /\ l[i - 1].id = x.request.creative_id
C11_Witness ==
    /\ pc = "done"
    /\ Len(AdSets) >= 2
    /\ Len(Creatives) >= 2
    /\ NImg >= 1
    /\ NVid >= 1
    /\ Count("image") > NImg
    /\ Count("ad") = Len(AdSets) * Len(Creatives) * (NImg + NVid)
    /\ Count("creative") = Count("ad")

====
